---- MODULE Spec2Model ----
(***************************************************************************)
(* Model of box_delivery_dataset.py: the two dataset adapters              *)
(* BoxDeliveryImageDataset and BoxDeliveryLowdimDataset over a replay      *)
(* buffer, their train/validation episode masks, their sequence samplers   *)
(* and their by-index samples.                                             *)
(*                                                                         *)
(* Arrays are modelled by value as nested sequences carrying a dtype.      *)
(* Every stored scalar is a symbolic element [key, t, i, div]: the field   *)
(* it belongs to, its global timestep t in the buffer, its position i in   *)
(* the timestep's flattened features, and the divisor applied to it (1 as  *)
(* stored).  The provenance of every element of a sample is thereby        *)
(* visible in the sample.                                                  *)
(***************************************************************************)
EXTENDS Integers, Sequences, FiniteSets, TLC

VARIABLES zarr, replay_buffers, datasets, ghost, ret

vars == <<zarr, replay_buffers, datasets, ghost, ret>>

(***************************************************************************)
(* Bounds of the model.                                                    *)
(***************************************************************************)
MaxEpisodes == 3
MaxEpisodeLen == 2
MaxDatasets == 3

\* shapes of the stored per-timestep fields: state is (agent_pos x2, block_pose x3), action
\* is (T, 2) and img has 3 channels; the image side and the lowdim shapes are the data's
StateDim == 5
ActionDim == 2
ImgChannels == 3
ImgSize == 1
ObsRows == 2
ObsCols == 2
GoalDim == 1

\* the argument values the constructors are called with; val_ratio is in percent,
\* max_train_episodes is <<>> for None and <<k>> for k
Horizons == {1, 2, 3}
Pads == {0, 1}
Seeds == {0, 1, 42}
ValRatios == {0, 25}
MaxTrainChoices == {<<>>, <<1>>}

\* the keyword defaults of both constructors
DefaultHorizon == 1
DefaultPad == 0
DefaultSeed == 42

(***************************************************************************)
(* numpy helpers                                                           *)
(***************************************************************************)
Min(a, b) == IF a < b THEN a ELSE b
Max(a, b) == IF a > b THEN a ELSE b

Elem(key, t, i) == [key |-> key, t |-> t, i |-> i, div |-> 1]

\* arr[lo:hi] on the leading axis (0-based, half open)
Slice(data, lo, hi) == [k \in 1..(hi - lo) |-> data[lo + k]]

\* ~mask on a boolean array
Invert(mask) == [e \in 1..Len(mask) |-> ~mask[e]]

\* np.sum(mask)
RECURSIVE CountTrue(_)
CountTrue(mask) == IF mask = <<>> THEN 0 ELSE (IF Head(mask) THEN 1 ELSE 0) + CountTrue(Tail(mask))

\* np.nonzero(mask)[0], 1-based
Nonzero(mask) == LET F[k \in 0..Len(mask)] == IF k = 0 THEN <<>> ELSE IF mask[k] THEN Append(F[k - 1], k) ELSE F[k - 1]
                 IN F[Len(mask)]

\* concatenation of a sequence of sequences, in order
RECURSIVE Flatten(_)
Flatten(rows) == IF rows = <<>> THEN <<>> ELSE Head(rows) \o Flatten(Tail(rows))

\* arr.astype(dtype)
AsType(arr, dtype) == [arr EXCEPT !.dtype = dtype]

\* torch.from_numpy(arr): the tensor keeps the array's dtype and contents
FromNumpy(arr) == [tensor |-> TRUE, dtype |-> arr.dtype, data |-> arr.data]

(***************************************************************************)
(* The zarr store on disk: n episodes of the given lengths, every field    *)
(* one row per timestep.                                                   *)
(***************************************************************************)
RECURSIVE SumSeq(_)
SumSeq(s) == IF s = <<>> THEN 0 ELSE Head(s) + SumSeq(Tail(s))

EpisodeEnds(lens) == [e \in 1..Len(lens) |-> SumSeq(SubSeq(lens, 1, e))]

ZarrStore(lens) ==
    LET T == SumSeq(lens)
    IN [episode_ends |-> EpisodeEnds(lens),
        data |-> [
          img |-> [dtype |-> "uint8",
                   data |-> [t \in 1..T |-> [h \in 1..ImgSize |-> [w \in 1..ImgSize |-> [c \in 1..ImgChannels |->
                               Elem("img", t, ((h - 1) * ImgSize + (w - 1)) * ImgChannels + c)]]]]],
          state |-> [dtype |-> "float64",
                     data |-> [t \in 1..T |-> [i \in 1..StateDim |-> Elem("state", t, i)]]],
          action |-> [dtype |-> "float64",
                      data |-> [t \in 1..T |-> [i \in 1..ActionDim |-> Elem("action", t, i)]]],
          state_positions |-> [dtype |-> "float64",
                     data |-> [t \in 1..T |-> [r \in 1..ObsRows |-> [c \in 1..ObsCols |->
                               Elem("state_positions", t, (r - 1) * ObsCols + c)]]]],
          goal |-> [dtype |-> "float64",
                    data |-> [t \in 1..T |-> [i \in 1..GoalDim |-> Elem("goal", t, i)]]],
          valid_obs_mask |-> [dtype |-> "bool",
                    data |-> [t \in 1..T |-> [r \in 1..ObsRows |-> Elem("valid_obs_mask", t, r)]]]]]

(***************************************************************************)
(* diffusion_policy.common.replay_buffer.ReplayBuffer                      *)
(***************************************************************************)
\* ReplayBuffer.copy_from_path(zarr_path, keys): an in-memory copy of the listed fields
CopyFromPath(store, keys) == [episode_ends |-> store.episode_ends,
                              data |-> [k \in keys |-> store.data[k]]]

\* replay_buffer.n_episodes
NEpisodes(rb) == Len(rb.episode_ends)

\* the episode (1-based) that holds global timestep t (1-based)
EpisodeOf(rb, t) == CHOOSE e \in 1..NEpisodes(rb) :
                       /\ t <= rb.episode_ends[e]
                       /\ t > (IF e = 1 THEN 0 ELSE rb.episode_ends[e - 1])

(***************************************************************************)
(* diffusion_policy.common.sampler: get_val_mask, downsample_mask          *)
(***************************************************************************)
\* the generator of np.random.default_rng(seed): its stream is a function of the seed
RngNext(state) == (state * 5 + 3) % 16

Remove(pool, i) == SubSeq(pool, 1, i - 1) \o SubSeq(pool, i + 1, Len(pool))

\* rng.choice over pool, size draws, replace=False
RECURSIVE Draw(_, _, _)
Draw(state, pool, size) ==
    IF size = 0 THEN <<>>
    ELSE LET i == (state % Len(pool)) + 1
         IN <<pool[i]>> \o Draw(RngNext(state), Remove(pool, i), size - 1)

RngChoice(seed, n, size) == Draw(seed, [k \in 1..n |-> k], size)

SeqToSet(s) == {s[k] : k \in 1..Len(s)}

\* Python's round() of num/100: to the nearest integer, ties to even
RoundPercent(num) ==
    LET q == num \div 100
        r == num % 100
    IN IF 2 * r > 100 THEN q + 1
       ELSE IF 2 * r < 100 THEN q
       ELSE IF q % 2 = 0 THEN q ELSE q + 1

\* get_val_mask(n_episodes, val_ratio, seed); val_ratio in percent
get_val_mask(n_episodes, val_ratio, seed) ==
    IF val_ratio <= 0 THEN [e \in 1..n_episodes |-> FALSE]
    ELSE LET n_val == Min(Max(1, RoundPercent(n_episodes * val_ratio)), n_episodes - 1)
             val_idxs == SeqToSet(RngChoice(seed, n_episodes, n_val))
         IN [e \in 1..n_episodes |-> e \in val_idxs]

\* downsample_mask(mask, max_n, seed); max_n is <<>> for None, <<k>> for k
downsample_mask(mask, max_n, seed) ==
    IF max_n # <<>> /\ CountTrue(mask) > max_n[1]
    THEN LET n_train == max_n[1]
             curr_train_idxs == Nonzero(mask)
             train_idxs_idx == RngChoice(seed, Len(curr_train_idxs), n_train)
             train_idxs == {curr_train_idxs[train_idxs_idx[k]] : k \in 1..n_train}
         IN [e \in 1..Len(mask) |-> e \in train_idxs]
    ELSE mask

(***************************************************************************)
(* diffusion_policy.common.sampler: SequenceSampler                        *)
(***************************************************************************)
\* the windows of one episode: <<buffer_start_idx, buffer_end_idx, sample_start_idx, sample_end_idx>>
EpisodeIndices(start_idx, end_idx, sequence_length, pad_before, pad_after) ==
    LET episode_length == end_idx - start_idx
        min_start == 0 - pad_before
        max_start == episode_length - sequence_length + pad_after
    IN [k \in 1..Max(0, max_start - min_start + 1) |->
          LET idx == min_start + k - 1
              buffer_start_idx == Max(idx, 0) + start_idx
              buffer_end_idx == Min(idx + sequence_length, episode_length) + start_idx
              start_offset == buffer_start_idx - (idx + start_idx)
              end_offset == (idx + sequence_length + start_idx) - buffer_end_idx
          IN <<buffer_start_idx, buffer_end_idx, 0 + start_offset, sequence_length - end_offset>>]

create_indices(episode_ends, sequence_length, episode_mask, pad_before, pad_after) ==
    LET pb == Min(Max(pad_before, 0), sequence_length - 1)
        pa == Min(Max(pad_after, 0), sequence_length - 1)
    IN Flatten([i \in 1..Len(episode_ends) |->
          IF ~episode_mask[i] THEN <<>>
          ELSE EpisodeIndices(IF i > 1 THEN episode_ends[i - 1] ELSE 0, episode_ends[i],
                              sequence_length, pb, pa)])

\* SequenceSampler(replay_buffer, sequence_length, pad_before, pad_after, episode_mask);
\* replay_buffer is the reference (index into replay_buffers), rb the buffer it refers to
SequenceSampler(replay_buffer, rb, sequence_length, pad_before, pad_after, episode_mask) ==
    [replay_buffer |-> replay_buffer,
     sequence_length |-> sequence_length,
     pad_before |-> pad_before,
     pad_after |-> pad_after,
     episode_mask |-> episode_mask,
     indices |-> IF \E e \in 1..Len(episode_mask) : episode_mask[e]
                 THEN create_indices(rb.episode_ends, sequence_length, episode_mask, pad_before, pad_after)
                 ELSE <<>>]

\* len(sampler)
SamplerLen(sampler) == Len(sampler.indices)

\* sampler.sample_sequence(idx), idx 0-based: every field of the buffer, sequence_length rows
sample_sequence(sampler, rb, idx) ==
    LET ix == sampler.indices[idx + 1]
        S == sampler.sequence_length
    IN [key \in DOMAIN rb.data |->
          LET input_arr == rb.data[key]
              sample == Slice(input_arr.data, ix[1], ix[2])
          IN [dtype |-> input_arr.dtype,
              data |-> IF ix[3] > 0 \/ ix[4] < S
                       THEN [k \in 1..S |-> IF k <= ix[3] THEN sample[1]
                                            ELSE IF k > ix[4] THEN sample[Len(sample)]
                                            ELSE sample[k - ix[3]]]
                       ELSE sample]]

(***************************************************************************)
(* LinearNormalizer, get_image_range_normalizer, dict_apply                *)
(***************************************************************************)
\* LinearNormalizer().fit(data, last_n_dims=1, mode): the normalizer remembers what it was fit on
NormalizerFit(data, mode) == [fit_data |-> data, last_n_dims |-> 1, mode |-> mode]

\* get_image_range_normalizer(): fixed, not fit from data
ImageRangeNormalizer == [scale |-> 2, offset |-> -1]

(***************************************************************************)
(* The state.                                                              *)
(*   zarr            the store at zarr_path                                *)
(*   replay_buffers  the heap of ReplayBuffer objects; an adapter's        *)
(*                   replay_buffer field is an index into it               *)
(*   datasets        the heap of adapter objects, in order of creation     *)
(*   ghost           per adapter: the adapter it was derived from (0 for a *)
(*                   constructed one) and the constructor's split          *)
(*                   arguments and validation mask                         *)
(*   ret             the last call and what it returned                    *)
(***************************************************************************)
\* the episode lengths of the stores: n episodes whose lengths cycle through 1..MaxEpisodeLen
Lens == {[e \in 1..n |-> ((e - 1) % MaxEpisodeLen) + 1] : n \in 1..MaxEpisodes}

Init ==
    /\ zarr \in {ZarrStore(lens) : lens \in Lens}
    /\ replay_buffers = <<>>
    /\ datasets = <<>>
    /\ ghost = <<>>
    /\ ret = [op |-> "none", self |-> 0, idx |-> -1, value |-> <<>>]

Return(op, self, idx, value) == [op |-> op, self |-> self, idx |-> idx, value |-> value]

Roots == {i \in 1..Len(ghost) : ghost[i].derived_from = 0}

(***************************************************************************)
(* BoxDeliveryImageDataset                                                 *)
(***************************************************************************)
\* downsample_mask is not applied
Image_split_no_downsample(n_episodes, seed, val_ratio, max_train_episodes) ==
    LET val_mask == get_val_mask(n_episodes, val_ratio, seed)
        train_mask == Invert(val_mask)
    IN [val_mask |-> val_mask,
        train_mask |-> train_mask]

\* the split of __init__: val_mask, and train_mask after downsampling
Image_split(n_episodes, seed, val_ratio, max_train_episodes) ==
    LET val_mask == get_val_mask(n_episodes, val_ratio, seed)
        train_mask == Invert(val_mask)
    IN [val_mask |-> val_mask,
        train_mask |-> downsample_mask(train_mask, max_train_episodes, seed)]

\* the attributes __init__ sets
Image_new(replay_buffer, rb, train_mask, horizon, pad_before, pad_after) ==
    [cls |-> "image",
     replay_buffer |-> replay_buffer,
     sampler |-> SequenceSampler(replay_buffer, rb, horizon, pad_before, pad_after, train_mask),
     train_mask |-> train_mask,
     horizon |-> horizon,
     pad_before |-> pad_before,
     pad_after |-> pad_after]

Image_init(horizon, pad_before, pad_after, seed, val_ratio, max_train_episodes) ==
    /\ Len(datasets) < MaxDatasets
    /\ LET replay_buffer == Len(replay_buffers) + 1
           rb == CopyFromPath(zarr, {"img", "state", "action"})
           split == Image_split(NEpisodes(rb), seed, val_ratio, max_train_episodes)
       IN /\ replay_buffers' = Append(replay_buffers, rb)
          /\ datasets' = Append(datasets,
                Image_new(replay_buffer, rb, split.train_mask, horizon, pad_before, pad_after))
          /\ ghost' = Append(ghost, [derived_from |-> 0, seed |-> seed, val_ratio |-> val_ratio,
                                     max_train_episodes |-> max_train_episodes,
                                     val_mask |-> split.val_mask])
          /\ ret' = Return("init", Len(datasets) + 1, -1, <<>>)
    /\ UNCHANGED zarr

\* the copy's train_mask is left as copied
Image_val_set_keeps_mask(self) ==
    [self EXCEPT
       !.sampler = SequenceSampler(self.replay_buffer, replay_buffers[self.replay_buffer],
                                   self.horizon, self.pad_before, self.pad_after,
                                   Invert(self.train_mask))]

\* copy.copy(self) with the copy's sampler and train_mask replaced
Image_val_set(self) ==
    [self EXCEPT
       !.sampler = SequenceSampler(self.replay_buffer, replay_buffers[self.replay_buffer],
                                   self.horizon, self.pad_before, self.pad_after,
                                   Invert(self.train_mask)),
       !.train_mask = Invert(self.train_mask)]

Image_get_validation_dataset(i) ==
    /\ Len(datasets) < MaxDatasets
    /\ datasets[i].cls = "image"
    /\ datasets' = Append(datasets, Image_val_set(datasets[i]))
    /\ ghost' = Append(ghost, [ghost[i] EXCEPT !.derived_from = i])
    /\ ret' = Return("get_validation_dataset", i, -1, Len(datasets) + 1)
    /\ UNCHANGED <<zarr, replay_buffers>>

\* state[..., :2] of an array of rows
FirstTwo(arr) == [dtype |-> arr.dtype,
                  data |-> [t \in 1..Len(arr.data) |-> SubSeq(arr.data[t], 1, Min(2, Len(arr.data[t])))]]

\* the rows of arr whose episode the mask holds
MaskedRows(arr, rb, mask) ==
    [dtype |-> arr.dtype,
     data |-> LET F[t \in 0..Len(arr.data)] ==
                     IF t = 0 THEN <<>>
                     ELSE IF mask[EpisodeOf(rb, t)] THEN Append(F[t - 1], arr.data[t]) ELSE F[t - 1]
              IN F[Len(arr.data)]]

\* the normalizer is fit on the episodes of self.train_mask only
Image_normalizer_train_only(self) ==
    LET rb == replay_buffers[self.replay_buffer]
        data == [action |-> MaskedRows(rb.data.action, rb, self.train_mask),
                 agent_pos |-> FirstTwo(MaskedRows(rb.data.state, rb, self.train_mask))]
    IN [linear |-> NormalizerFit(data, "limits"), image |-> ImageRangeNormalizer]

Image_normalizer(self) ==
    LET rb == replay_buffers[self.replay_buffer]
        data == [action |-> rb.data.action, agent_pos |-> FirstTwo(rb.data.state)]
    IN [linear |-> NormalizerFit(data, "limits"), image |-> ImageRangeNormalizer]

Image_get_normalizer(i) ==
    /\ datasets[i].cls = "image"
    /\ ret' = Return("get_normalizer", i, -1, Image_normalizer(datasets[i]))
    /\ UNCHANGED <<zarr, replay_buffers, datasets, ghost>>

Image_len(i) ==
    /\ datasets[i].cls = "image"
    /\ ret' = Return("len", i, -1, SamplerLen(datasets[i].sampler))
    /\ UNCHANGED <<zarr, replay_buffers, datasets, ghost>>

\* np.moveaxis(img, -1, 1) / 255 on an array (T, H, W, C)
MoveAxisDiv255(data) ==
    [t \in 1..Len(data) |->
       [c \in 1..Len(data[t][1][1]) |->
          [h \in 1..Len(data[t]) |->
             [w \in 1..Len(data[t][h]) |-> [data[t][h][w][c] EXCEPT !.div = @ * 255]]]]]

\* agent_pos is sample['state'][:2]: the slice falls on the time axis
Image_sample_to_data_time_slice(sample) ==
    LET agent_pos == AsType([dtype |-> sample.state.dtype,
                             data |-> SubSeq(sample.state.data, 1, Min(2, Len(sample.state.data)))],
                            "float32")
        image == [dtype |-> "float64", data |-> MoveAxisDiv255(sample.img.data)]
    IN [obs |-> [image |-> image, agent_pos |-> agent_pos],
        action |-> AsType(sample.action, "float32")]

Image_sample_to_data(sample) ==
    LET agent_pos == AsType([dtype |-> sample.state.dtype,
                             data |-> [t \in 1..Len(sample.state.data) |->
                                         SubSeq(sample.state.data[t], 1, Min(2, Len(sample.state.data[t])))]],
                            "float32")
        image == [dtype |-> "float64", data |-> MoveAxisDiv255(sample.img.data)]
    IN [obs |-> [image |-> image, agent_pos |-> agent_pos],
        action |-> AsType(sample.action, "float32")]

\* rb is the buffer self.sampler.replay_buffer refers to
Image_item(self, rb, idx) ==
    LET sample == sample_sequence(self.sampler, rb, idx)
        data == Image_sample_to_data(sample)
    IN [obs |-> [image |-> FromNumpy(data.obs.image), agent_pos |-> FromNumpy(data.obs.agent_pos)],
        action |-> FromNumpy(data.action)]

Image_getitem(i, idx) ==
    /\ datasets[i].cls = "image"
    /\ idx \in 0..(SamplerLen(datasets[i].sampler) - 1)
    /\ ret' = Return("getitem", i, idx, Image_item(datasets[i], replay_buffers[datasets[i].sampler.replay_buffer], idx))
    /\ UNCHANGED <<zarr, replay_buffers, datasets, ghost>>

(***************************************************************************)
(* BoxDeliveryLowdimDataset                                                *)
(***************************************************************************)
\* the generators are seeded from process-wide state that every construction advances,
\* instead of from the seed alone
Lowdim_split_global_rng(n_episodes, seed, val_ratio, max_train_episodes) ==
    LET val_mask == get_val_mask(n_episodes, val_ratio, seed + Len(replay_buffers))
        train_mask == Invert(val_mask)
    IN [val_mask |-> val_mask,
        train_mask |-> downsample_mask(train_mask, max_train_episodes, seed + Len(replay_buffers))]

Lowdim_split(n_episodes, seed, val_ratio, max_train_episodes) ==
    LET val_mask == get_val_mask(n_episodes, val_ratio, seed)
        train_mask == Invert(val_mask)
    IN [val_mask |-> val_mask,
        train_mask |-> downsample_mask(train_mask, max_train_episodes, seed)]

\* the sampler is built without episode_mask, whose default covers every episode
Lowdim_new_unmasked_sampler(replay_buffer, rb, train_mask, horizon, pad_before, pad_after) ==
    [cls |-> "lowdim",
     replay_buffer |-> replay_buffer,
     sampler |-> SequenceSampler(replay_buffer, rb, horizon, pad_before, pad_after,
                                 [e \in 1..Len(train_mask) |-> TRUE]),
     obs_key |-> "state_positions",
     state_key |-> "goal",
     action_key |-> "action",
     train_mask |-> train_mask,
     horizon |-> horizon,
     pad_before |-> pad_before,
     pad_after |-> pad_after]

Lowdim_new(replay_buffer, rb, train_mask, horizon, pad_before, pad_after) ==
    [cls |-> "lowdim",
     replay_buffer |-> replay_buffer,
     sampler |-> SequenceSampler(replay_buffer, rb, horizon, pad_before, pad_after, train_mask),
     obs_key |-> "state_positions",
     state_key |-> "goal",
     action_key |-> "action",
     train_mask |-> train_mask,
     horizon |-> horizon,
     pad_before |-> pad_before,
     pad_after |-> pad_after]

Lowdim_init(horizon, pad_before, pad_after, seed, val_ratio, max_train_episodes) ==
    /\ Len(datasets) < MaxDatasets
    /\ LET replay_buffer == Len(replay_buffers) + 1
           rb == CopyFromPath(zarr, {"state_positions", "goal", "action", "valid_obs_mask"})
           split == Lowdim_split(NEpisodes(rb), seed, val_ratio, max_train_episodes)
       IN /\ replay_buffers' = Append(replay_buffers, rb)
          /\ datasets' = Append(datasets,
                Lowdim_new(replay_buffer, rb, split.train_mask, horizon, pad_before, pad_after))
          /\ ghost' = Append(ghost, [derived_from |-> 0, seed |-> seed, val_ratio |-> val_ratio,
                                     max_train_episodes |-> max_train_episodes,
                                     val_mask |-> split.val_mask])
          /\ ret' = Return("init", Len(datasets) + 1, -1, <<>>)
    /\ UNCHANGED zarr

\* the copy's sampler is rebuilt over self.train_mask, not its complement
Lowdim_val_set_train_sampler(self) ==
    [self EXCEPT
       !.sampler = SequenceSampler(self.replay_buffer, replay_buffers[self.replay_buffer],
                                   self.horizon, self.pad_before, self.pad_after,
                                   self.train_mask),
       !.train_mask = Invert(self.train_mask)]

Lowdim_val_set(self) ==
    [self EXCEPT
       !.sampler = SequenceSampler(self.replay_buffer, replay_buffers[self.replay_buffer],
                                   self.horizon, self.pad_before, self.pad_after,
                                   Invert(self.train_mask)),
       !.train_mask = Invert(self.train_mask)]

\* val_set = self: the sampler and the mask are patched on the adapter itself
Lowdim_get_validation_dataset_aliased(i) ==
    /\ Len(datasets) < MaxDatasets
    /\ datasets[i].cls = "lowdim"
    /\ datasets' = Append([datasets EXCEPT ![i] = Lowdim_val_set(datasets[i])],
                          Lowdim_val_set(datasets[i]))
    /\ ghost' = Append(ghost, [ghost[i] EXCEPT !.derived_from = i])
    /\ ret' = Return("get_validation_dataset", i, -1, Len(datasets) + 1)
    /\ UNCHANGED <<zarr, replay_buffers>>

Lowdim_get_validation_dataset(i) ==
    /\ Len(datasets) < MaxDatasets
    /\ datasets[i].cls = "lowdim"
    /\ datasets' = Append(datasets, Lowdim_val_set(datasets[i]))
    /\ ghost' = Append(ghost, [ghost[i] EXCEPT !.derived_from = i])
    /\ ret' = Return("get_validation_dataset", i, -1, Len(datasets) + 1)
    /\ UNCHANGED <<zarr, replay_buffers>>

\* the goal is concatenated before the flattened observation
Lowdim_sample_to_data_goal_first(self, sample) ==
    LET state == sample[self.obs_key]
        goal == sample[self.state_key]
        obs == [dtype |-> state.dtype,
                data |-> [t \in 1..Len(state.data) |-> goal.data[t] \o Flatten(state.data[t])]]
    IN [obs |-> obs, action |-> sample[self.action_key]]

\* sample is a mapping from field name to array: a window, or the whole replay buffer
Lowdim_sample_to_data(self, sample) ==
    LET state == sample[self.obs_key]
        goal == sample[self.state_key]
        obs == [dtype |-> state.dtype,
                data |-> [t \in 1..Len(state.data) |-> Flatten(state.data[t]) \o goal.data[t]]]
    IN [obs |-> obs, action |-> sample[self.action_key]]

Lowdim_normalizer(self) ==
    LET data == Lowdim_sample_to_data(self, replay_buffers[self.replay_buffer].data)
    IN NormalizerFit(data, "limits")

\* the record is built in place: the observation field of the mapping passed in, here the
\* replay buffer, is overwritten with a widened array
Lowdim_get_normalizer_in_place(i) ==
    /\ datasets[i].cls = "lowdim"
    /\ ret' = Return("get_normalizer", i, -1, Lowdim_normalizer(datasets[i]))
    /\ replay_buffers' = [replay_buffers EXCEPT
          ![datasets[i].replay_buffer].data[datasets[i].obs_key].data =
              [t \in 1..Len(@) |-> <<@[t][1]>> \o @[t]]]
    /\ UNCHANGED <<zarr, datasets, ghost>>

Lowdim_get_normalizer(i) ==
    /\ datasets[i].cls = "lowdim"
    /\ ret' = Return("get_normalizer", i, -1, Lowdim_normalizer(datasets[i]))
    /\ UNCHANGED <<zarr, replay_buffers, datasets, ghost>>

Lowdim_all_actions(self) == FromNumpy(replay_buffers[self.replay_buffer].data[self.action_key])

Lowdim_get_all_actions(i) ==
    /\ datasets[i].cls = "lowdim"
    /\ ret' = Return("get_all_actions", i, -1, Lowdim_all_actions(datasets[i]))
    /\ UNCHANGED <<zarr, replay_buffers, datasets, ghost>>

Lowdim_len(i) ==
    /\ datasets[i].cls = "lowdim"
    /\ ret' = Return("len", i, -1, SamplerLen(datasets[i].sampler))
    /\ UNCHANGED <<zarr, replay_buffers, datasets, ghost>>

\* rb is the buffer self.sampler.replay_buffer refers to
Lowdim_item(self, rb, idx) ==
    LET sample == sample_sequence(self.sampler, rb, idx)
        data == Lowdim_sample_to_data(self, sample)
    IN [obs |-> FromNumpy(data.obs), action |-> FromNumpy(data.action)]

Lowdim_getitem(i, idx) ==
    /\ datasets[i].cls = "lowdim"
    /\ idx \in 0..(SamplerLen(datasets[i].sampler) - 1)
    /\ ret' = Return("getitem", i, idx, Lowdim_item(datasets[i], replay_buffers[datasets[i].sampler.replay_buffer], idx))
    /\ UNCHANGED <<zarr, replay_buffers, datasets, ghost>>

(***************************************************************************)
(* Specifications                                                          *)
(***************************************************************************)
\* more windows than any sampler of the model holds
MaxWindows == MaxEpisodes * (MaxEpisodeLen + 2)

\* One adapter is constructed, with the default seed and any other arguments; validation
\* views are derived from it and from its views; every adapter is read.
Next ==
    \/ \E h \in Horizons, pb \in Pads, pa \in Pads, vr \in ValRatios, m \in MaxTrainChoices :
          /\ datasets = <<>>
          /\ \/ Image_init(h, pb, pa, DefaultSeed, vr, m)
             \/ Lowdim_init(h, pb, pa, DefaultSeed, vr, m)
    \/ \E i \in 1..Len(datasets) :
          \/ Image_get_validation_dataset(i)
          \/ Lowdim_get_validation_dataset(i)
          \/ Image_get_normalizer(i)
          \/ Lowdim_get_normalizer(i)
          \/ Lowdim_get_all_actions(i)
          \/ Image_len(i)
          \/ Lowdim_len(i)
          \/ \E idx \in 0..MaxWindows :
                \/ Image_getitem(i, idx)
                \/ Lowdim_getitem(i, idx)

Spec == Init /\ [][Next]_vars

\* Two adapters are constructed over the same store, each with the constructors' default
\* windowing and any split arguments; validation views are derived from both.
NextPair ==
    \/ \E seed \in Seeds, vr \in ValRatios, m \in MaxTrainChoices :
          /\ Len(datasets) <= 1
          /\ \/ Image_init(DefaultHorizon, DefaultPad, DefaultPad, seed, vr, m)
             \/ Lowdim_init(DefaultHorizon, DefaultPad, DefaultPad, seed, vr, m)
    \/ \E i \in 1..Len(datasets) :
          \/ Image_get_validation_dataset(i)
          \/ Lowdim_get_validation_dataset(i)

SpecPair == Init /\ [][NextPair]_vars

(***************************************************************************)
(* Properties                                                              *)
(***************************************************************************)
Views == {j \in 1..Len(datasets) : ghost[j].derived_from # 0}

Origin(j) == ghost[j].derived_from

Mixed(mask) == (\E e \in 1..Len(mask) : mask[e]) /\ (\E e \in 1..Len(mask) : ~mask[e])

\* C1: the train_mask of the adapter get_validation_dataset() returns is the element-wise
\* complement of the train_mask of the adapter it was called on: every episode is in exactly
\* one of the two masks.
C1_ValidationMaskIsComplement ==
    \A j \in Views :
       LET orig == datasets[Origin(j)].train_mask
           val == datasets[j].train_mask
       IN /\ Len(val) = Len(orig)
          /\ \A e \in 1..Len(orig) : (orig[e] /\ ~val[e]) \/ (~orig[e] /\ val[e])

\* a view was derived from an adapter whose mask holds some episodes and excludes others
C1_Witness ==
    \E j \in Views : Mixed(datasets[Origin(j)].train_mask) /\ Mixed(datasets[j].train_mask)

\* C2: get_validation_dataset() leaves every existing adapter as it was (train_mask, sampler,
\* horizon, pad_before, pad_after and all); the returned copy differs from the adapter it was
\* called on in its sampler and its train_mask only.
C2_ValidationLeavesOriginal ==
    [][ret'.op = "get_validation_dataset" =>
         /\ Len(datasets') = Len(datasets) + 1
         /\ \A k \in 1..Len(datasets) : datasets'[k] = datasets[k]
         /\ LET self == datasets[ret'.self]
                val_set == datasets'[ret'.value]
            IN /\ DOMAIN val_set = DOMAIN self
               /\ \A f \in DOMAIN self \ {"sampler", "train_mask"} : val_set[f] = self[f]
               /\ val_set.train_mask # self.train_mask
               /\ val_set.sampler # self.sampler]_vars

\* two views were derived from the same adapter, which still differs from both
C2_Witness ==
    \E j, k \in Views :
       /\ j # k
       /\ Origin(j) = Origin(k)
       /\ datasets[Origin(j)].train_mask # datasets[j].train_mask
       /\ datasets[Origin(j)].sampler # datasets[k].sampler

\* C8: in every adapter, constructed or derived (also a view of a view), the sampler was built
\* with the adapter's train_mask as its episode mask and with the adapter's replay buffer,
\* horizon, pad_before and pad_after.
C8_SamplerMatchesAdapter ==
    \A i \in 1..Len(datasets) :
       LET self == datasets[i]
       IN /\ self.sampler.episode_mask = self.train_mask
          /\ self.sampler.replay_buffer = self.replay_buffer
          /\ self.sampler.sequence_length = self.horizon
          /\ self.sampler.pad_before = self.pad_before
          /\ self.sampler.pad_after = self.pad_after

\* a view of a view exists, with padding and a mask that excludes episodes
C8_Witness ==
    \E j \in Views :
       /\ Origin(j) \in Views
       /\ Mixed(datasets[j].train_mask)
       /\ datasets[j].pad_before > 0
       /\ datasets[j].horizon > 1

\* the scalars of an array of rows, and of an image array (T, C, H, W)
Elems2(data) == {data[t][k] : t \in 1..Len(data), k \in 1..Len(data[1])}

Elems4(data) == {data[t][c][h][w] : t \in 1..Len(data), c \in 1..Len(data[1]),
                                    h \in 1..Len(data[1][1]), w \in 1..Len(data[1][1][1])}

ItemElems(cls, item) ==
    IF cls = "image"
    THEN Elems4(item.obs.image.data) \cup Elems2(item.obs.agent_pos.data) \cup Elems2(item.action.data)
    ELSE Elems2(item.obs.data) \cup Elems2(item.action.data)

\* the entry of the sampler's index table behind the last __getitem__
RetWindow == datasets[ret.self].sampler.indices[ret.idx + 1]

\* C3: every window __getitem__(idx) returns, for idx in [0, len), from a constructed adapter
\* or any view derived from it, is drawn from one episode, and that episode's entry in the
\* adapter's train_mask is true.
C3_WindowsFromMaskedEpisodes ==
    ret.op = "getitem" =>
       LET self == datasets[ret.self]
           rb == replay_buffers[self.replay_buffer]
           episodes == {EpisodeOf(rb, el.t) : el \in ItemElems(self.cls, ret.value)}
       IN /\ Cardinality(episodes) = 1
          /\ \A e \in episodes : self.train_mask[e]

\* a window was read from a view whose mask excludes some episodes
C3_Witness ==
    /\ ret.op = "getitem"
    /\ ret.self \in Views
    /\ Mixed(datasets[ret.self].train_mask)
    /\ ret.idx > 0

\* C4: every field of the sample __getitem__(idx) returns has leading time dimension horizon,
\* padded windows included; in the image adapter obs.agent_pos has shape (horizon, 2).
C4_SampleTimeDimension ==
    ret.op = "getitem" =>
       LET self == datasets[ret.self]
           item == ret.value
       IN IF self.cls = "image"
          THEN /\ Len(item.obs.image.data) = self.horizon
               /\ Len(item.obs.agent_pos.data) = self.horizon
               /\ \A t \in 1..self.horizon : Len(item.obs.agent_pos.data[t]) = 2
               /\ Len(item.action.data) = self.horizon
          ELSE /\ Len(item.obs.data) = self.horizon
               /\ Len(item.action.data) = self.horizon

\* a window of the image adapter padded at its start and at its end was read
C4_Witness ==
    /\ ret.op = "getitem"
    /\ datasets[ret.self].cls = "image"
    /\ RetWindow[3] > 0
    /\ RetWindow[4] < datasets[ret.self].horizon

\* what C7 states of the record data built from the mapping sample
LowdimRecordOk(self, sample, data) ==
    LET state == sample[self.obs_key]
        goal == sample[self.state_key]
        T == Len(state.data)
    IN /\ Len(data.obs.data) = T
       /\ \A t \in 1..T :
            LET R == Len(state.data[t])
                W == Len(state.data[t][1])
                G == Len(goal.data[t])
            IN /\ Len(data.obs.data[t]) = R * W + G
               /\ \A r \in 1..R, c \in 1..W : data.obs.data[t][(r - 1) * W + c] = state.data[t][r][c]
               /\ \A j \in 1..G : data.obs.data[t][R * W + j] = goal.data[t][j]
       /\ data.action.data = sample[self.action_key].data
       /\ data.action.dtype = sample[self.action_key].dtype

\* C7: the lowdim record of a window of T timesteps has obs of shape (T, F + G), F the product
\* of the non-time dimensions of the obs_key field and G the last dimension of the state_key
\* field, the flattened observation first and the goal last; its action is the action_key
\* field unchanged.  The same holds of the record get_normalizer builds from the whole buffer.
C7_LowdimRecord ==
    /\ (ret.op = "getitem" /\ datasets[ret.self].cls = "lowdim") =>
          LET self == datasets[ret.self]
          IN LowdimRecordOk(self,
                sample_sequence(self.sampler, replay_buffers[self.sampler.replay_buffer], ret.idx),
                ret.value)
    /\ (ret.op = "get_normalizer" /\ datasets[ret.self].cls = "lowdim") =>
          LET self == datasets[ret.self]
          IN LowdimRecordOk(self, replay_buffers[self.replay_buffer].data, ret.value.fit_data)

\* a padded window of several timesteps was read from the lowdim adapter
C7_Witness ==
    /\ ret.op = "getitem"
    /\ datasets[ret.self].cls = "lowdim"
    /\ datasets[ret.self].horizon > 1
    /\ RetWindow[3] > 0
    /\ Len(ret.value.obs.data[1]) = ObsRows * ObsCols + GoalDim

Normalizer(i) == IF datasets[i].cls = "image" THEN Image_normalizer(datasets[i])
                 ELSE Lowdim_normalizer(datasets[i])

\* data has one row per timestep of the buffer, row t holding the scalars of timestep t
CoversBuffer(rb, data) ==
    /\ Len(data) = rb.episode_ends[NEpisodes(rb)]
    /\ \A t \in 1..Len(data) : \A k \in 1..Len(data[t]) : data[t][k].t = t

\* C10: get_normalizer and get_all_actions do not depend on the episode mask: a view shares
\* the replay buffer of the adapter it was derived from and yields the same normalizer (and
\* the same actions), and what is fit on (or returned) has every timestep of every stored
\* episode, the episodes the adapter's train_mask excludes included.
C10_NormalizerIgnoresMask ==
    /\ \A j \in Views :
          /\ datasets[j].replay_buffer = datasets[Origin(j)].replay_buffer
          /\ Normalizer(j) = Normalizer(Origin(j))
          /\ datasets[j].cls = "lowdim" =>
                Lowdim_all_actions(datasets[j]) = Lowdim_all_actions(datasets[Origin(j)])
    /\ ret.op = "get_normalizer" =>
          LET self == datasets[ret.self]
              rb == replay_buffers[self.replay_buffer]
          IN IF self.cls = "image"
             THEN /\ CoversBuffer(rb, ret.value.linear.fit_data.action.data)
                  /\ CoversBuffer(rb, ret.value.linear.fit_data.agent_pos.data)
             ELSE /\ CoversBuffer(rb, ret.value.fit_data.obs.data)
                  /\ CoversBuffer(rb, ret.value.fit_data.action.data)
    /\ ret.op = "get_all_actions" =>
          CoversBuffer(replay_buffers[datasets[ret.self].replay_buffer], ret.value.data)

\* the normalizer of a view was computed, the view and its origin each excluding episodes
C10_Witness ==
    /\ ret.op = "get_normalizer"
    /\ ret.self \in Views
    /\ Mixed(datasets[ret.self].train_mask)

ReadOps == {"len", "getitem", "get_normalizer", "get_all_actions"}

Length(i) == SamplerLen(datasets[i].sampler)

\* what self.__getitem__(idx) returns when the replay buffers are bufs
Item(self, bufs, idx) ==
    IF self.cls = "image" THEN Image_item(self, bufs[self.sampler.replay_buffer], idx)
    ELSE Lowdim_item(self, bufs[self.sampler.replay_buffer], idx)

\* C6: __len__, __getitem__, get_normalizer and get_all_actions are pure reads: they leave
\* every adapter (train_mask and sampler included) and the replay buffers unchanged, so what
\* __len__ and __getitem__(idx) return is the same before and after the call; an adapter with
\* another mask or sampler appears by construction or get_validation_dataset only, and no step
\* changes the contents of an existing replay buffer.
C6_ReadsArePure ==
    [][/\ ret'.op \in ReadOps =>
             /\ datasets' = datasets
             /\ replay_buffers' = replay_buffers
             /\ \A i \in 1..Len(datasets) : SamplerLen(datasets'[i].sampler) = Length(i)
             /\ ret'.op = "len" => ret'.value = Length(ret'.self)
             /\ \A i \in 1..Len(datasets) : \A idx \in 0..(Length(i) - 1) :
                   (i = ret'.self /\ idx = (IF ret'.op = "getitem" THEN ret'.idx ELSE 0)) =>
                      LET before == Item(datasets[i], replay_buffers, idx)
                      IN /\ Item(datasets'[i], replay_buffers', idx) = before
                         /\ ret'.op = "getitem" => ret'.value = before
       /\ datasets' # datasets => ret'.op \in {"init", "get_validation_dataset"}
       /\ ret'.op = "get_validation_dataset" => replay_buffers' = replay_buffers
       /\ \A b \in 1..Len(replay_buffers) :
             Len(replay_buffers') >= b /\ replay_buffers'[b] = replay_buffers[b]]_vars

\* the normalizer of a lowdim view was computed after the view was derived
C6_Witness ==
    /\ ret.op = "get_normalizer"
    /\ datasets[ret.self].cls = "lowdim"
    /\ ret.self \in Views
    /\ Length(ret.self) > 0

SameSplitArgs(i, j) ==
    /\ ghost[i].seed = ghost[j].seed
    /\ ghost[i].val_ratio = ghost[j].val_ratio
    /\ ghost[i].max_train_episodes = ghost[j].max_train_episodes

RootViews == {j \in Views : Origin(j) \in Roots}

\* the constructor downsampled the train mask
Downsampled(i) ==
    /\ ghost[i].max_train_episodes # <<>>
    /\ CountTrue(Invert(ghost[i].val_mask)) > ghost[i].max_train_episodes[1]

\* C9 as claimed: for every max_train_episodes the mask of get_validation_dataset() equals the
\* validation mask get_val_mask returned at construction, and the constructed train_mask is a
\* subset of the complement of that validation mask.
C9_Original ==
    \A j \in RootViews :
       LET i == Origin(j)
       IN /\ datasets[j].train_mask = ghost[i].val_mask
          /\ \A e \in 1..Len(datasets[i].train_mask) : datasets[i].train_mask[e] => ~ghost[i].val_mask[e]

\* C9, amended: the mask of get_validation_dataset() holds every episode of the validation mask
\* get_val_mask returned at construction and, besides, exactly the episodes downsampling
\* removed from the train mask; it equals that validation mask exactly when max_train_episodes
\* is None or at least the number of non-validation episodes.  The constructed train_mask is a
\* subset of the complement of the validation mask.
C9_ValidationViewCoversDropped ==
    \A j \in RootViews :
       LET i == Origin(j)
           view == datasets[j].train_mask
           train == datasets[i].train_mask
           val_mask == ghost[i].val_mask
       IN /\ Len(view) = Len(val_mask)
          /\ \A e \in 1..Len(val_mask) :
                /\ val_mask[e] => view[e]
                /\ train[e] => ~val_mask[e]
                /\ view[e] <=> (val_mask[e] \/ ~train[e])
          /\ (view = val_mask) <=> ~Downsampled(i)
          /\ Downsampled(i) => CountTrue(train) = ghost[i].max_train_episodes[1]

\* a view was derived from an adapter whose train mask was downsampled next to a validation
\* episode: the view holds an episode that is not a validation episode
C9_Witness ==
    \E j \in RootViews :
       /\ Downsampled(Origin(j))
       /\ \E e \in 1..Len(datasets[j].train_mask) : ghost[Origin(j)].val_mask[e]
       /\ \E e \in 1..Len(datasets[j].train_mask) :
             datasets[j].train_mask[e] /\ ~ghost[Origin(j)].val_mask[e]

====
